---- MODULE Spec2Model ----
(***************************************************************************)
(* rpc-load-balancer: the endpoint selection engine (CheckEndpointStatus,  *)
(* SelectBestEndpoint, StartChecker), the current-best slot of the Gateway *)
(* and the reverse proxy's rate-limit feedback (ProxyHandler).             *)
(*                                                                         *)
(* Endpoint records are numbered 1..Len(Endpoints) in configuration order; *)
(* a *types.RpcEndpoint pointer is the record's number.  Wall-clock time   *)
(* is a natural number of clock units; a time.Duration is a number of the  *)
(* same units.                                                             *)
(***************************************************************************)
EXTENDS Integers, Sequences, FiniteSets, TLC

VARIABLES
  cfg,          \* config.AppConfig.RpcEndpoints, the configured URL strings
  Endpoints,    \* Gateway.Endpoints: sequence of RpcEndpoint records
  CurrentBest,  \* Gateway.CurrentBest: the published record (its number)
  mutex,        \* RpcEndpoint.Mutex of every record: the task holding it
                \* for writing, or NoOne (in SpecLocks: the writer, the
                \* waiting writers and the readers)
  now,          \* the wall clock read by time.Now()
  pass,         \* the locals of every goroutine running SelectBestEndpoint
  req,          \* the locals of every request being served by ProxyHandler
  mainpc,       \* where main() is: "init" (before StartChecker returns),
                \* "serving", "shutdown" (cancel() has been called)
  checker,      \* the checker goroutine of StartChecker: "none", "running",
                \* "stopped"
  published     \* history: setBestEndpoint has been called at least once

vars == <<cfg, Endpoints, CurrentBest, mutex, now, pass, req, mainpc, checker,
          published>>

-----------------------------------------------------------------------------
(* Bounds of the model *)

\* the clock runs from 0 to MaxTime
MaxTime == 2
\* number of request handlers that can be in flight at once
MaxReq == 1
\* number of goroutines started by "go gw.SelectBestEndpoint()" alive at once
MaxSpawn == 1

(* Configuration values (config.Config) *)

\* cfg.RateLimitBackoff, in clock units
RateLimitBackoff == 1
\* cfg.BlockTolerance
BlockTolerance == 1

\* The configurations the model starts from: two distinct URLs.
Configs == { <<"u1", "u2">> }

\* Block numbers a healthy upstream reports, and probe round-trip times (a
\* round trip shorter than the resolution of the measurement is 0).
Blocks == {0, 2}
Latencies == {0, 1}

NoOne == <<"none">>
ReqIds == 1..MaxReq
\* pass 0 is the pass run by StartChecker and its ticker goroutine;
\* passes 1..MaxSpawn are started by the proxy on a 429
PassIds == 0..MaxSpawn
SpawnIds == 1..MaxSpawn

-----------------------------------------------------------------------------
(* NewGateway *)

RECURSIVE ParseAll(_)
\* the loop of NewGateway: one zero-valued record per URL that url.Parse accepts
ParseAll(urls) ==
  IF urls = <<>> THEN <<>>
  ELSE LET rest == ParseAll(Tail(urls))
       IN IF Head(urls) = "bad" THEN rest
          ELSE <<[URL |-> Head(urls), BlockNumber |-> 0, Latency |-> 0,
                  IsRateLimited |-> FALSE, RateLimitedUntil |-> 0,
                  IsReachable |-> FALSE]>> \o rest

\* the locals of a SelectBestEndpoint call that is not running, with three
\* history fields: past, whether every probe of the call has returned;
\* allowed, the records the table allowed as current best when the last of
\* them did; dirty, whether a record or gw.CurrentBest has been written by
\* another goroutine since.  Two more history fields outlive the call: got,
\* what the upstreams answered (or would have answered) the probes of the
\* last call, and at, the time of that call
IdlePass == [pc |-> "idle", probe |-> <<>>, pnow |-> <<>>, idx |-> 0,
             candidates |-> <<>>, highestBlock |-> -1, blockThreshold |-> 0,
             finalCandidates |-> <<>>, si |-> 0, sj |-> 0,
             best |-> 0, currentBestURL |-> "",
             past |-> FALSE, allowed |-> {}, dirty |-> FALSE,
             got |-> <<>>, at |-> 0]

\* the locals of a request handler that is not serving a request
\* (sent: upstream dispatches of the request; upstream: what came back, -1
\* before anything has; status: what the client was answered, 0 before it is)
IdleReq == [pc |-> "idle", target |-> 0, flagged |-> 0, sent |-> 0,
            upstream |-> -1, status |-> 0]

\* variant: the last record is the initial current best
InitialBestLast(endpoints) == Len(endpoints)

\* gw.CurrentBest = gw.Endpoints[0]
InitialBest(endpoints) == 1

\* NewGateway succeeded on configuration c and main is about to call StartChecker
NewGateway(c) ==
  /\ cfg = c
  /\ Endpoints = ParseAll(c)
  /\ Len(Endpoints) > 0
  /\ CurrentBest = InitialBest(ParseAll(c))
  /\ mutex = [e \in 1..Len(ParseAll(c)) |-> NoOne]
  /\ now = 0
  /\ pass = [p \in PassIds |-> IdlePass]
  /\ req = [r \in ReqIds |-> IdleReq]
  /\ mainpc = "init"
  /\ checker = "none"
  /\ published = FALSE

Init == \E c \in Configs : NewGateway(c)

N == Len(Endpoints)
EpIds == 1..N

-----------------------------------------------------------------------------
(* sync.RWMutex.  Read locks are taken and released inside one step of the   *)
(* model (the comparator of the sort holds two of them at the same instant), *)
(* so only the writer is state; SpecLocks, further down, keeps the readers   *)
(* and the waiting writers as state too.                                     *)

\* variant: Lock() returns whoever holds the mutex
WLockAlwaysFree(e) == TRUE

\* Lock() returns: no writer holds the mutex
WLockFree(e) == mutex[e] = NoOne
\* RLock() returns: no writer holds the mutex
CanRLock(e) == mutex[e] = NoOne

-----------------------------------------------------------------------------
(* What a selection over a table is required to publish *)

\* the record is a candidate: reachable and not rate limited
Eligible(ep) == ep.IsReachable /\ ~ep.IsRateLimited

\* the candidates of table E
EligibleSet(E) == {e \in 1..Len(E) : Eligible(E[e])}

\* the chosen set of table E: the candidates within BlockTolerance of the
\* highest candidate block, or all candidates if there is none
ChosenSet(E) ==
  LET hi == CHOOSE h \in {E[e].BlockNumber : e \in EligibleSet(E)} :
              \A e \in EligibleSet(E) : E[e].BlockNumber <= h
      fresh == {e \in EligibleSet(E) : E[e].BlockNumber >= hi - BlockTolerance}
  IN IF fresh = {} THEN EligibleSet(E) ELSE fresh

\* the records of the chosen set of E that have its minimum latency
Fastest(E) ==
  {e \in ChosenSet(E) : \A f \in ChosenSet(E) : E[e].Latency <= E[f].Latency}

\* the records of table E that C1 allows as current best after a pass: the
\* fastest of the chosen set, none if E has no candidate
Allowed(E) == IF EligibleSet(E) = {} THEN {} ELSE Fastest(E)

-----------------------------------------------------------------------------
(* CheckEndpointStatus *)

\* what one probe request can come back with: no response ("http_do": a
\* transport error or timeout), a 429, a response the probe cannot use
\* ("failed": another non-200 status, an unreadable body, malformed JSON, an
\* RPC error or an unparsable block number) or a well-formed 200 with the
\* block number parsed from "result"; every response has a round-trip time
Outcomes ==
  {[kind |-> "http_do", latency |-> 0, block |-> 0]}
  \cup [kind : {"429", "failed"}, latency : Latencies, block : {0}]
  \cup [kind : {"ok"}, latency : Latencies, block : Blocks]

\* variant: the backoff branch is never taken
InBackoffNever(ep, t) == FALSE

\* ep.IsRateLimited && now.Before(ep.RateLimitedUntil)
InBackoff(ep, t) == ep.IsRateLimited /\ t < ep.RateLimitedUntil

\* variant: the flag is never cleared on entry
BackoffEndedNever(ep, t) == FALSE

\* ep.IsRateLimited && now.After(ep.RateLimitedUntil)
BackoffEnded(ep, t) == ep.IsRateLimited /\ t > ep.RateLimitedUntil

\* the record after the entry checks of a probe that goes on to send its request
AfterEntry(ep, t) ==
  IF BackoffEnded(ep, t) THEN [ep EXCEPT !.IsRateLimited = FALSE] ELSE ep

\* variant: a response the probe cannot use leaves IsReachable as it was
ProbeResultLenient(ep, t, out) ==
  IF out.kind = "http_do" THEN ep
  ELSE LET ep1 == [ep EXCEPT !.Latency = out.latency]
       IN CASE out.kind = "429" ->
                 [ep1 EXCEPT !.IsRateLimited = TRUE,
                             !.RateLimitedUntil = t + RateLimitBackoff,
                             !.IsReachable = FALSE]
            [] out.kind = "ok" ->
                 [ep1 EXCEPT !.BlockNumber = out.block, !.IsReachable = TRUE]
            [] OTHER -> ep1

\* the record after the response (or error) of the probe request; t is the
\* "now" read on entry
ProbeResult(ep, t, out) ==
  IF out.kind = "http_do" THEN [ep EXCEPT !.IsReachable = FALSE]
  ELSE LET ep1 == [ep EXCEPT !.Latency = out.latency]
       IN CASE out.kind = "429" ->
                 [ep1 EXCEPT !.IsRateLimited = TRUE,
                             !.RateLimitedUntil = t + RateLimitBackoff,
                             !.IsReachable = FALSE]
            [] out.kind = "ok" ->
                 [ep1 EXCEPT !.BlockNumber = out.block, !.IsReachable = TRUE]
            [] OTHER -> [ep1 EXCEPT !.IsReachable = FALSE]

\* variant: the call writes its record over every record of the table
WrittenToAll(E, e, ep) == [f \in DOMAIN E |-> ep]

\* the table E after a CheckEndpointStatus call has written ep through its
\* pointer argument, which points to record e
Written(E, e, ep) == [E EXCEPT ![e] = ep]

ProbeTask(p) == <<"probe", p>>
ReqTask(r) == <<"req", r>>

\* history: the table becomes E and gw.CurrentBest becomes best while some
\* calls are past their probes
Noted(E, best) ==
  [q \in PassIds |->
     IF pass[q].past /\ (E # Endpoints \/ best # CurrentBest)
     THEN [pass[q] EXCEPT !.dirty = TRUE] ELSE pass[q]]

\* the probe of record e by pass p has returned, leaving the table E: from
\* the backoff branch without sending anything ("skipped"), or after its
\* request ("done")
ProbeReturned(p, e, how, E) ==
  LET probe == [pass[p].probe EXCEPT ![e] = how]
      last == \A f \in DOMAIN probe : probe[f] \in {"done", "skipped"}
  IN [Noted(E, CurrentBest) EXCEPT
        ![p].probe = probe,
        ![p].pnow[e] = 0,
        ![p].past = last,
        ![p].allowed = IF last THEN Allowed(E) ELSE {}]

\* ep.Mutex.Lock() returns; the entry checks run; either the probe returns at
\* once (backoff) or the request is sent and the lock stays held
CheckEnter(p, e) ==
  /\ pass[p].pc = "probe"
  /\ pass[p].probe[e] = "spawned"
  /\ WLockFree(e)
  /\ IF InBackoff(Endpoints[e], now)
       THEN LET E == Written(Endpoints, e,
                              [Endpoints[e] EXCEPT !.IsReachable = FALSE])
            IN /\ Endpoints' = E
               /\ UNCHANGED mutex
               /\ pass' = ProbeReturned(p, e, "skipped", E)
       ELSE LET E == Written(Endpoints, e, AfterEntry(Endpoints[e], now))
            IN /\ Endpoints' = E
               /\ mutex' = [mutex EXCEPT ![e] = ProbeTask(p)]
               /\ pass' = [Noted(E, CurrentBest)
                             EXCEPT ![p].probe[e] = "io", ![p].pnow[e] = now]
  /\ UNCHANGED <<cfg, CurrentBest, now, req, mainpc, checker,
                 published>>

\* the response arrives (or the request fails), outs being what the upstream
\* can answer; the record is updated and the deferred Unlock runs
CheckFinishWith(p, e, outs) ==
  /\ pass[p].pc = "probe"
  /\ pass[p].probe[e] = "io"
  /\ \E out \in outs :
       LET E == Written(Endpoints, e,
                        ProbeResult(Endpoints[e], pass[p].pnow[e], out))
       IN /\ Endpoints' = E
          /\ pass' = ProbeReturned(p, e, "done", E)
  /\ mutex' = [mutex EXCEPT ![e] = NoOne]
  /\ UNCHANGED <<cfg, CurrentBest, now, req, mainpc, checker,
                 published>>

\* the same, whatever the upstream answers
CheckFinish(p, e) == CheckFinishWith(p, e, Outcomes)

-----------------------------------------------------------------------------
(* SelectBestEndpoint *)

\* the goroutine's locals right after the loop that starts one probe per record
StartedPass ==
  [IdlePass EXCEPT !.pc = "probe",
                   !.probe = [e \in EpIds |-> "spawned"],
                   !.pnow = [e \in EpIds |-> 0]]

\* a SelectBestEndpoint call has returned (or was never made)
Returned(p) == pass[p].pc \in {"idle", "done"}

\* variant: wg.Wait() returns at once
ProbesDoneEarly(p) == pass[p].pc = "probe"

\* wg.Wait() has returned: every probe of the pass is done
ProbesDone(p) ==
  /\ pass[p].pc = "probe"
  /\ \A e \in EpIds : pass[p].probe[e] \in {"done", "skipped"}

\* ep.IsReachable && !ep.IsRateLimited
IsCandidate(ep) == ep.IsReachable /\ ~ep.IsRateLimited

\* ep.BlockNumber >= blockThreshold
WithinTolerance(ep, threshold) == ep.BlockNumber >= threshold

\* the comparator of sort.Slice: finalCandidates[i].Latency < finalCandidates[j].Latency
Less(a, b) == a.Latency < b.Latency

\* a SelectBestEndpoint call that has returned has no locals left
DonePass == [IdlePass EXCEPT !.pc = "done"]

\* variant: a pass without candidates falls back to the first record
OnNoCandidatesFirst(cur) == 1

\* if len(candidates) == 0 { ...; return }: the value of gw.CurrentBest when
\* the pass returns from there, cur being its value before
OnNoCandidates(cur) == cur

\* one iteration of the first loop over gw.Endpoints (RLock, test, RUnlock);
\* after the last one, the len(candidates) == 0 test and blockThreshold
ScanEndpoint(p) ==
  /\ ProbesDone(p) \/ pass[p].pc = "scan"
  /\ LET e == IF pass[p].pc = "probe" THEN 1 ELSE pass[p].idx
         ep == Endpoints[e]
         cands == IF IsCandidate(ep) THEN Append(pass[p].candidates, e)
                  ELSE pass[p].candidates
         hb == IF IsCandidate(ep) /\ ep.BlockNumber > pass[p].highestBlock
               THEN ep.BlockNumber ELSE pass[p].highestBlock
     IN /\ CanRLock(e)
        /\ IF e = N /\ Len(cands) = 0
             THEN /\ pass' = [pass EXCEPT ![p] = DonePass]
                  /\ CurrentBest' = OnNoCandidates(CurrentBest)
             ELSE /\ pass' = [pass EXCEPT
                       ![p].candidates = cands,
                       ![p].highestBlock = IF e < N THEN hb ELSE -1,
                       ![p].idx = IF e < N THEN e + 1 ELSE 1,
                       ![p].blockThreshold =
                          IF e < N THEN 0 ELSE hb - BlockTolerance,
                       ![p].pc = IF e < N THEN "scan" ELSE "filter"]
                  /\ UNCHANGED CurrentBest
  /\ UNCHANGED <<cfg, Endpoints, mutex, now, req, mainpc, checker,
                 published>>

\* one iteration of the loop over candidates (RLock, test, RUnlock); after the
\* last one, the fallback to all candidates; sort.Slice of fewer than two
\* elements compares nothing
FilterCandidate(p) ==
  /\ pass[p].pc = "filter"
  /\ LET i == pass[p].idx
         e == pass[p].candidates[i]
         fin == IF WithinTolerance(Endpoints[e], pass[p].blockThreshold)
                THEN Append(pass[p].finalCandidates, e)
                ELSE pass[p].finalCandidates
         last == i = Len(pass[p].candidates)
         fin2 == IF last /\ Len(fin) = 0 THEN pass[p].candidates ELSE fin
     IN /\ CanRLock(e)
        /\ pass' = [pass EXCEPT
             ![p].finalCandidates = fin2,
             ![p].idx = IF last THEN 0 ELSE i + 1,
             ![p].si = IF last THEN 2 ELSE 0,
             ![p].sj = IF last THEN 2 ELSE 0,
             ![p].pc = IF ~last THEN "filter"
                       ELSE IF Len(fin2) < 2 THEN "best" ELSE "sort"]
  /\ UNCHANGED <<cfg, Endpoints, CurrentBest, mutex, now, req, mainpc,
                 checker, published>>

\* s with the elements at i and j exchanged
Swap(s, i, j) == [s EXCEPT ![i] = s[j], ![j] = s[i]]

\* one call of the comparator (RLock of both records, the comparison, the
\* deferred RUnlocks) and the step of the insertion sort that sort.Slice runs
\* on a slice of at most 12 elements:
\*   for i := a + 1; i < b; i++ {
\*     for j := i; j > a && less(j, j-1); j-- { swap(j, j-1) } }
CompareAndSwap(p) ==
  /\ pass[p].pc = "sort"
  /\ LET fin == pass[p].finalCandidates
         j == pass[p].sj
         x == fin[j]
         y == fin[j - 1]
         lt == Less(Endpoints[x], Endpoints[y])
         fin2 == IF lt THEN Swap(fin, j, j - 1) ELSE fin
         inner == lt /\ j - 1 > 1
         i2 == IF inner THEN pass[p].si ELSE pass[p].si + 1
         j2 == IF inner THEN j - 1 ELSE i2
     IN /\ CanRLock(x)
        /\ CanRLock(y)
        /\ pass' = [pass EXCEPT
             ![p].finalCandidates = fin2,
             ![p].si = IF i2 > Len(fin) THEN 0 ELSE i2,
             ![p].sj = IF i2 > Len(fin) THEN 0 ELSE j2,
             ![p].pc = IF i2 > Len(fin) THEN "best" ELSE "sort"]
  /\ UNCHANGED <<cfg, Endpoints, CurrentBest, mutex, now, req, mainpc, checker,
                 published>>

\* best := finalCandidates[0]; under best.Mutex.RLock the pass reads the URL
\* of the record gw.GetBestEndpoint() returns
ReadBest(p) ==
  /\ pass[p].pc = "best"
  /\ LET b == pass[p].finalCandidates[1]
     IN /\ CanRLock(b)
        /\ pass' = [pass EXCEPT
             ![p].best = b,
             ![p].currentBestURL = Endpoints[CurrentBest].URL,
             ![p].pc = "set"]
  /\ UNCHANGED <<cfg, Endpoints, CurrentBest, mutex, now, req, mainpc,
                 checker, published>>

\* variant: setBestEndpoint is never called
MustSetNever(currentBestURL, bestURL) == FALSE

\* if currentBestURL != bestURL { gw.setBestEndpoint(best) }
MustSet(currentBestURL, bestURL) == currentBestURL # bestURL

PublishBest(p) ==
  /\ pass[p].pc = "set"
  /\ LET b == pass[p].best
         set == MustSet(pass[p].currentBestURL, Endpoints[b].URL)
     IN /\ CurrentBest' = IF set THEN b ELSE CurrentBest
        /\ published' = (published \/ set)
        /\ pass' = [Noted(Endpoints, IF set THEN b ELSE CurrentBest)
                      EXCEPT ![p] = DonePass]
  /\ UNCHANGED <<cfg, Endpoints, mutex, now, req, mainpc, checker>>

-----------------------------------------------------------------------------
(* SelectBestEndpoint as one step: the probes of the pass, then the          *)
(* selection, with no other goroutine running in between                     *)

\* the record when a whole CheckEndpointStatus call that started at time t and
\* got outcome out (if it sent its request) returns
CheckEndpointStatus(ep, t, out) ==
  IF InBackoff(ep, t) THEN [ep EXCEPT !.IsReachable = FALSE]
  ELSE ProbeResult(AfterEntry(ep, t), t, out)

\* sort.Slice(finalCandidates, less) is pdqsort_func of the Go standard
\* library (package sort, Go 1.24 of the Dockerfile) over the slice s of
\* records of the table E.  Positions are counted from 0 as in Go and ranges
\* are half-open: data[a:b].

\* data.Less(i, j)
LessAt(s, i, j, E) == Less(E[s[i + 1]], E[s[j + 1]])

\* data.Swap(i, j)
SwapAt(s, i, j) == Swap(s, i + 1, j + 1)

RECURSIVE Insert(_, _, _, _)
\* for j := i; j > a && less(j, j-1); j-- { swap(j, j-1) }
Insert(s, a, j, E) ==
  IF j > a /\ LessAt(s, j, j - 1, E)
  THEN Insert(SwapAt(s, j, j - 1), a, j - 1, E)
  ELSE s

RECURSIVE InsertionSort(_, _, _, _, _)
\* insertionSort_func(data, a, b), from its index i on
InsertionSort(s, a, b, i, E) ==
  IF i >= b THEN s ELSE InsertionSort(Insert(s, a, i, E), a, b, i + 1, E)

\* order2_func: the positions x, y in the order of their elements, and the
\* count of swaps
Order2(s, x, y, swaps, E) ==
  IF LessAt(s, y, x, E) THEN [x |-> y, y |-> x, swaps |-> swaps + 1]
  ELSE [x |-> x, y |-> y, swaps |-> swaps]

\* choosePivot_func for a range of 8 to 49 elements: median_func of the
\* elements at a + l/4, a + 2(l/4), a + 3(l/4), with the number of swaps that
\* ordering them took (0 gives increasingHint)
ChoosePivot(s, a, b, E) ==
  LET q == (b - a) \div 4
      o1 == Order2(s, a + q, a + 2 * q, 0, E)
      o2 == Order2(s, o1.y, a + 3 * q, o1.swaps, E)
      o3 == Order2(s, o1.x, o2.x, o2.swaps, E)
  IN [pivot |-> o3.y, swaps |-> o3.swaps]

\* partialInsertionSort_func for a range below shortestShifting (50): true
\* iff no element is less than the one before it; nothing is moved
PartialInsertionSort(s, a, b, E) ==
  \A i \in (a + 1)..(b - 1) : ~LessAt(s, i, i - 1, E)

RECURSIVE SkipLess(_, _, _, _, _)
\* for i <= j && less(i, a) { i++ }
SkipLess(s, i, j, a, E) ==
  IF i <= j /\ LessAt(s, i, a, E) THEN SkipLess(s, i + 1, j, a, E) ELSE i

RECURSIVE SkipNotLess(_, _, _, _, _)
\* for i <= j && !less(j, a) { j-- }
SkipNotLess(s, i, j, a, E) ==
  IF i <= j /\ ~LessAt(s, j, a, E) THEN SkipNotLess(s, i, j - 1, a, E) ELSE j

RECURSIVE PartitionLoop(_, _, _, _, _)
\* the for loop of partition_func and the final swap(j, a)
PartitionLoop(s, i, j, a, E) ==
  LET i1 == SkipLess(s, i, j, a, E)
      j1 == SkipNotLess(s, i1, j, a, E)
  IN IF i1 > j1 THEN [s |-> SwapAt(s, j1, a), mid |-> j1]
     ELSE PartitionLoop(SwapAt(s, i1, j1), i1 + 1, j1 - 1, a, E)

\* partition_func(data, a, b, pivot): the slice and the new place of the pivot
Partition(s, a, b, pivot, E) ==
  LET s1 == SwapAt(s, a, pivot)
      i1 == SkipLess(s1, a + 1, b - 1, a, E)
      j1 == SkipNotLess(s1, i1, b - 1, a, E)
  IN IF i1 > j1 THEN [s |-> SwapAt(s1, j1, a), mid |-> j1]
     ELSE PartitionLoop(SwapAt(s1, i1, j1), i1 + 1, j1 - 1, a, E)

\* pdqsort_func(data, a, b, limit) for a range of at most 13 elements: up to
\* maxInsertion (12) elements are sorted by insertion; 13 elements are left
\* alone if they are found in order, else partitioned around the pivot, and
\* both parts, of at most 12 elements, are sorted by insertion
Pdqsort(s, a, b, E) ==
  IF b - a <= 12 THEN InsertionSort(s, a, b, a + 1, E)
  ELSE LET pv == ChoosePivot(s, a, b, E)
       IN IF pv.swaps = 0 /\ PartialInsertionSort(s, a, b, E) THEN s
          ELSE LET pt == Partition(s, a, b, pv.pivot, E)
                   left == InsertionSort(pt.s, a, pt.mid, a + 1, E)
               IN InsertionSort(left, pt.mid + 1, b, pt.mid + 2, E)

\* sort.Slice(finalCandidates, less) over the table E
SortSlice(s, E) == Pdqsort(s, 0, Len(s), E)

RECURSIVE Candidates(_, _)
\* the first loop over gw.Endpoints, from record e on: the candidates in
\* configuration order
Candidates(E, e) ==
  IF e > Len(E) THEN <<>>
  ELSE (IF IsCandidate(E[e]) THEN <<e>> ELSE <<>>) \o Candidates(E, e + 1)

RECURSIVE HighestBlock(_, _, _)
\* highestBlock after the first loop, hb being its value before record e
HighestBlock(E, e, hb) ==
  IF e > Len(E) THEN hb
  ELSE HighestBlock(E, e + 1,
         IF IsCandidate(E[e]) /\ E[e].BlockNumber > hb
         THEN E[e].BlockNumber ELSE hb)

RECURSIVE Filter(_, _, _, _)
\* the loop over candidates, from index i on
Filter(E, cands, i, threshold) ==
  IF i > Len(cands) THEN <<>>
  ELSE (IF WithinTolerance(E[cands[i]], threshold) THEN <<cands[i]>> ELSE <<>>)
       \o Filter(E, cands, i + 1, threshold)

\* what the selection over table E does, cur being gw.CurrentBest: whether it
\* calls setBestEndpoint (sets) and the value it leaves in gw.CurrentBest
Selection(E, cur) ==
  LET cands == Candidates(E, 1)
  IN IF Len(cands) = 0 THEN [sets |-> FALSE, best |-> OnNoCandidates(cur)]
     ELSE LET fin == Filter(E, cands, 1,
                            HighestBlock(E, 1, -1) - BlockTolerance)
              best == SortSlice(IF Len(fin) = 0 THEN cands ELSE fin, E)[1]
              sets == MustSet(E[cur].URL, E[best].URL)
          IN [sets |-> sets, best |-> IF sets THEN best ELSE cur]

\* the outcome written for a probe that sends no request
NoRequest == [kind |-> "http_do", latency |-> 0, block |-> 0]

\* a whole SelectBestEndpoint call in which the upstream of record e answers
\* outs[e] if it is asked: every record is probed at the current time, then
\* the selection runs on the table the probes left
PassWith(outs) ==
  LET E == [e \in EpIds |-> CheckEndpointStatus(Endpoints[e], now, outs[e])]
      sel == Selection(E, CurrentBest)
  IN /\ Endpoints' = E
     /\ CurrentBest' = sel.best
     /\ published' = (published \/ sel.sets)

\* a whole SelectBestEndpoint call
SelectBestEndpoint ==
  /\ \A e \in EpIds : WLockFree(e)
  /\ \E outs \in [EpIds -> Outcomes] :
       /\ \A e \in EpIds : InBackoff(Endpoints[e], now) => outs[e] = NoRequest
       /\ PassWith(outs)

-----------------------------------------------------------------------------
(* main and StartChecker *)

\* cancel() has been called: ctx.Done() is closed
ctxDone == mainpc = "shutdown"

\* variant: a tick is taken while the previous pass is still running
AtSelectOrBusy == checker = "running"

\* the checker goroutine is blocked in its select statement
AtSelect == checker = "running" /\ Returned(0)

\* main calls gw.StartChecker(ctx): a synchronous gw.SelectBestEndpoint(),
\* then the ticker and the checker goroutine are started; main starts the
\* listeners
StartChecker ==
  /\ mainpc = "init"
  /\ checker = "none"
  /\ SelectBestEndpoint
  /\ checker' = "running"
  /\ mainpc' = "serving"
  /\ UNCHANGED <<cfg, mutex, now, pass, req>>

\* case <-ticker.C: gw.SelectBestEndpoint().  A tick can be waiting in
\* ticker.C whenever the goroutine comes to the select, also when ctx.Done()
\* is closed: select then takes either case.
CheckerTick ==
  /\ AtSelect
  /\ SelectBestEndpoint
  /\ UNCHANGED <<cfg, mutex, now, pass, req, mainpc, checker>>

\* case <-ctx.Done(): return (the deferred ticker.Stop() runs)
CheckerStop ==
  /\ AtSelect
  /\ ctxDone
  /\ checker' = "stopped"
  /\ UNCHANGED <<cfg, Endpoints, CurrentBest, mutex, now, pass, req, mainpc,
                 published>>

\* main receives SIGINT or SIGTERM and calls cancel(), then server.Shutdown:
\* no new request is accepted, the ones in flight are served
Shutdown ==
  /\ mainpc = "serving"
  /\ mainpc' = "shutdown"
  /\ UNCHANGED <<cfg, Endpoints, CurrentBest, mutex, now, pass, req, checker,
                 published>>

\* the wall clock advances
ClockTick ==
  /\ now < MaxTime
  /\ now' = now + 1
  /\ UNCHANGED <<cfg, Endpoints, CurrentBest, mutex, pass, req, mainpc, checker,
                 published>>

-----------------------------------------------------------------------------
(* ProxyHandler: httputil.ReverseProxy with director, modifyResponse and      *)
(* errorHandler                                                               *)

\* what the round trip to the upstream can give: 0 is a transport error, the
\* other values are the status of the upstream's response
Upstreams == {0, 200, 429}

\* the record the director sends the request to: gw.GetBestEndpoint()
DirectorTarget == CurrentBest

\* the record modifyResponse flags on a 429: gw.GetBestEndpoint(); target is
\* the record the director chose for this request
FlaggedOn429(target) == CurrentBest

\* variant: a 429 of the upstream is answered like a transport error
ClientStatusMasked(upstream) == IF upstream = 200 THEN 200 ELSE 502

\* what the client is answered: modifyResponse returns nil, so an upstream
\* response goes to the client with its status; a transport error goes to
\* errorHandler, which answers http.StatusBadGateway
ClientStatus(upstream) == IF upstream = 0 THEN 502 ELSE upstream

\* variant: the update also marks the record not reachable
FlaggedUnreachable(ep, t) ==
  [ep EXCEPT !.IsRateLimited = TRUE, !.RateLimitedUntil = t + RateLimitBackoff,
             !.IsReachable = FALSE]

\* the record after modifyResponse's update at time t
Flagged(ep, t) ==
  [ep EXCEPT !.IsRateLimited = TRUE, !.RateLimitedUntil = t + RateLimitBackoff]

\* the handler of request r returns, the round trip having given upstream
Answered(r, upstream) ==
  [req EXCEPT ![r].pc = "idle", ![r].target = 0, ![r].flagged = 0,
              ![r].upstream = upstream, ![r].status = ClientStatus(upstream)]

\* a client request arrives; the director reads the current best and the
\* request goes out to it
Forward(r) ==
  /\ mainpc = "serving"
  /\ req[r].pc = "idle"
  /\ req' = [req EXCEPT ![r] = [IdleReq EXCEPT !.pc = "forwarded",
                                               !.target = DirectorTarget,
                                               !.sent = 1]]
  /\ UNCHANGED <<cfg, Endpoints, CurrentBest, mutex, now, pass, mainpc, checker,
                 published>>

\* the round trip fails: errorHandler
ErrorHandler(r) ==
  /\ req[r].pc = "forwarded"
  /\ req' = Answered(r, 0)
  /\ UNCHANGED <<cfg, Endpoints, CurrentBest, mutex, now, pass, mainpc, checker,
                 published>>

\* the upstream answers with a status other than 429: modifyResponse does
\* nothing
PassThrough(r) ==
  /\ req[r].pc = "forwarded"
  /\ \E up \in Upstreams \ {0, 429} : req' = Answered(r, up)
  /\ UNCHANGED <<cfg, Endpoints, CurrentBest, mutex, now, pass, mainpc, checker,
                 published>>

\* the goroutine slots that "go gw.SelectBestEndpoint()" can use
FreeSpawn == {s \in SpawnIds : Returned(s)}

\* the first free goroutine slot
NewSpawn == CHOOSE x \in FreeSpawn : \A y \in FreeSpawn : x <= y

\* the upstream answers 429: modifyResponse as one step.  The record is read
\* from gw.GetBestEndpoint(), flagged under its mutex, and
\* "go gw.SelectBestEndpoint()" starts a pass
ModifyResponse(r) ==
  /\ req[r].pc = "forwarded"
  /\ WLockFree(FlaggedOn429(req[r].target))
  /\ FreeSpawn # {}
  /\ Endpoints' = [Endpoints EXCEPT
                     ![FlaggedOn429(req[r].target)] = Flagged(@, now)]
  /\ pass' = [pass EXCEPT ![NewSpawn] = StartedPass]
  /\ req' = Answered(r, 429)
  /\ UNCHANGED <<cfg, CurrentBest, mutex, now, mainpc, checker, published>>

\* a SelectBestEndpoint call started by modifyResponse of which no probe has
\* begun yet
Fresh(s) ==
  /\ pass[s].pc = "probe"
  /\ \A e \in EpIds : pass[s].probe[e] = "spawned"

\* the goroutine of "go gw.SelectBestEndpoint()", as one step
SpawnedPass(s) ==
  /\ Fresh(s)
  /\ SelectBestEndpoint
  /\ pass' = [pass EXCEPT ![s] = IdlePass]
  /\ UNCHANGED <<cfg, mutex, now, req, mainpc, checker>>

-----------------------------------------------------------------------------
(* The program, every call of SelectBestEndpoint and every callback of the   *)
(* proxy being one step                                                      *)

Next ==
  \/ StartChecker
  \/ CheckerTick
  \/ CheckerStop
  \/ Shutdown
  \/ ClockTick
  \/ \E s \in SpawnIds : SpawnedPass(s)
  \/ \E r \in ReqIds : Forward(r)
  \/ \E r \in ReqIds : ErrorHandler(r)
  \/ \E r \in ReqIds : PassThrough(r)
  \/ \E r \in ReqIds : ModifyResponse(r)

Spec == Init /\ [][Next]_vars

\* the program between two ticks of the checker: the startup pass, client
\* requests, the passes their 429s start, and the clock
NextOutOfCycle ==
  \/ StartChecker
  \/ ClockTick
  \/ \E s \in SpawnIds : SpawnedPass(s)
  \/ \E r \in ReqIds : Forward(r)
  \/ \E r \in ReqIds : ErrorHandler(r)
  \/ \E r \in ReqIds : PassThrough(r)
  \/ \E r \in ReqIds : ModifyResponse(r)

\* the goroutine that "go gw.SelectBestEndpoint()" starts is scheduled
SpecOutOfCycle ==
  /\ Init
  /\ [][NextOutOfCycle]_vars
  /\ WF_vars(\E s \in SpawnIds : SpawnedPass(s))

-----------------------------------------------------------------------------
(* The program with the goroutines interleaved: every SelectBestEndpoint     *)
(* call goes through its probes and its loops step by step, and              *)
(* modifyResponse can wait for the mutex of the record it flags              *)

\* StartChecker begins its synchronous gw.SelectBestEndpoint()
FirstPass ==
  /\ mainpc = "init"
  /\ checker = "none"
  /\ pass[0].pc = "idle"
  /\ pass' = [pass EXCEPT ![0] = StartedPass]
  /\ UNCHANGED <<cfg, Endpoints, CurrentBest, mutex, now, req, mainpc, checker,
                 published>>

\* variant: StartChecker returns and main starts the listeners without the
\* first pass having run
ServeEarly ==
  /\ mainpc = "init"
  /\ checker = "none"
  /\ pass[0].pc \in {"idle", "done"}
  /\ checker' = "running"
  /\ mainpc' = "serving"
  /\ UNCHANGED <<cfg, Endpoints, CurrentBest, mutex, now, pass, req, published>>

\* the first pass has returned: StartChecker creates the ticker, starts the
\* checker goroutine and returns; main starts the listeners
Serve ==
  /\ mainpc = "init"
  /\ checker = "none"
  /\ pass[0].pc = "done"
  /\ checker' = "running"
  /\ mainpc' = "serving"
  /\ UNCHANGED <<cfg, Endpoints, CurrentBest, mutex, now, pass, req, published>>

\* case <-ticker.C: the checker goroutine begins gw.SelectBestEndpoint()
TickPass ==
  /\ AtSelect
  /\ pass' = [pass EXCEPT ![0] = StartedPass]
  /\ UNCHANGED <<cfg, Endpoints, CurrentBest, mutex, now, req, mainpc, checker,
                 published>>

\* the upstream answers 429: modifyResponse reads gw.GetBestEndpoint()
Respond429(r) ==
  /\ req[r].pc = "forwarded"
  /\ req' = [req EXCEPT ![r].flagged = FlaggedOn429(req[r].target),
                        ![r].pc = "lock"]
  /\ UNCHANGED <<cfg, Endpoints, CurrentBest, mutex, now, pass, mainpc, checker,
                 published>>

\* best.Mutex.Lock() returns, the record is flagged, the mutex is released,
\* "go gw.SelectBestEndpoint()" starts a pass, and the handler returns
Flag(r) ==
  /\ req[r].pc = "lock"
  /\ WLockFree(req[r].flagged)
  /\ FreeSpawn # {}
  /\ LET E == [Endpoints EXCEPT ![req[r].flagged] = Flagged(@, now)]
     IN /\ Endpoints' = E
        /\ pass' = [Noted(E, CurrentBest) EXCEPT ![NewSpawn] = StartedPass]
  /\ req' = Answered(r, 429)
  /\ UNCHANGED <<cfg, CurrentBest, mutex, now, mainpc, checker, published>>

\* a step of a running SelectBestEndpoint call
PassStep ==
  \/ \E p \in PassIds, e \in EpIds : CheckEnter(p, e)
  \/ \E p \in PassIds, e \in EpIds : CheckFinish(p, e)
  \/ \E p \in PassIds : ScanEndpoint(p)
  \/ \E p \in PassIds : FilterCandidate(p)
  \/ \E p \in PassIds : CompareAndSwap(p)
  \/ \E p \in PassIds : ReadBest(p)
  \/ \E p \in PassIds : PublishBest(p)

NextInterleaved ==
  \/ FirstPass
  \/ Serve
  \/ TickPass
  \/ PassStep
  \/ \E r \in ReqIds : Forward(r)
  \/ \E r \in ReqIds : ErrorHandler(r)
  \/ \E r \in ReqIds : PassThrough(r)
  \/ \E r \in ReqIds : Respond429(r)
  \/ \E r \in ReqIds : Flag(r)

\* client traffic and the passes of the checker, within one unit of the clock
SpecInterleaved == Init /\ [][NextInterleaved]_vars

-----------------------------------------------------------------------------
(* The checker alone, step by step and over time: no client request arrives  *)

NextChecker ==
  \/ FirstPass
  \/ Serve
  \/ TickPass
  \/ CheckerStop
  \/ Shutdown
  \/ ClockTick
  \/ PassStep

SpecChecker == Init /\ [][NextChecker]_vars

-----------------------------------------------------------------------------
(* The selection over a pool of thirteen endpoints: sort.Slice leaves the    *)
(* insertion sort for slices of more than 12 elements                        *)

Pool13 == <<"u1", "u2", "u3", "u4", "u5", "u6", "u7", "u8", "u9", "u10",
            "u11", "u12", "u13">>

\* the loops of SelectBestEndpoint after wg.Wait(), as one step
SelectAfterProbes(p) ==
  /\ ProbesDone(p)
  /\ \A e \in EpIds : WLockFree(e)
  /\ LET sel == Selection(Endpoints, CurrentBest)
     IN /\ CurrentBest' = sel.best
        /\ published' = (published \/ sel.sets)
  /\ pass' = [pass EXCEPT ![p] = DonePass]
  /\ UNCHANGED <<cfg, Endpoints, mutex, now, req, mainpc, checker>>

\* the probes of StartChecker's first pass have returned: every endpoint of
\* the pool answered with the same block number and some round-trip time
InitSort ==
  /\ cfg = Pool13
  /\ \E lat \in [1..Len(Pool13) -> Latencies] :
       Endpoints = [e \in 1..Len(Pool13) |->
                      [URL |-> Pool13[e], BlockNumber |-> 2,
                       Latency |-> lat[e], IsRateLimited |-> FALSE,
                       RateLimitedUntil |-> 0, IsReachable |-> TRUE]]
  /\ CurrentBest = InitialBest(Endpoints)
  /\ mutex = [e \in 1..Len(Pool13) |-> NoOne]
  /\ now = 0
  /\ pass = [p \in PassIds |->
              IF p = 0
              THEN [IdlePass EXCEPT
                      !.pc = "probe",
                      !.probe = [e \in 1..Len(Pool13) |-> "done"],
                      !.pnow = [e \in 1..Len(Pool13) |-> 0],
                      !.past = TRUE,
                      !.allowed = Allowed(Endpoints)]
              ELSE IdlePass]
  /\ req = [r \in ReqIds |-> IdleReq]
  /\ mainpc = "init"
  /\ checker = "none"
  /\ published = FALSE

SpecSort == InitSort /\ [][\E p \in PassIds : SelectAfterProbes(p)]_vars

-----------------------------------------------------------------------------
(* Properties *)

\* in this step the probe of record e by pass p passes its entry checks
Enters(p, e) ==
  /\ pass[p].pc = "probe"
  /\ pass[p].probe[e] = "spawned"
  /\ pass'[p].probe[e] # "spawned"

\* C2: a SelectBestEndpoint call that returns when no record is both
\* reachable and not rate limited leaves gw.CurrentBest as it was
C2_EmptyPassKeepsBest ==
  [][\A p \in PassIds :
       (/\ ~Returned(p)
        /\ pass'[p].pc = "done"
        /\ \A e \in EpIds : ~Eligible(Endpoints[e]))
       => CurrentBest' = CurrentBest]_vars

\* a pass has returned without candidates and the current best, published by
\* an earlier pass, is the second record, itself unreachable
C2_Witness ==
  /\ pass[0].pc = "done"
  /\ published
  /\ CurrentBest = 2
  /\ \A e \in EpIds : ~Endpoints[e].IsReachable

\* C6 (as stated): a probe that begins at time t on a record with
\* IsRateLimited set and RateLimitedUntil <= t, the boundary included, has
\* cleared IsRateLimited when it has passed its entry checks
C6_ExpiredBackoffCleared ==
  [][\A p \in PassIds, e \in EpIds :
       (/\ Enters(p, e)
        /\ Endpoints[e].IsRateLimited
        /\ Endpoints[e].RateLimitedUntil <= now)
       => ~Endpoints'[e].IsRateLimited]_vars

\* C7: a probe entered on a record with IsRateLimited set and the clock
\* strictly before RateLimitedUntil returns without sending a request, having
\* set IsReachable to false and changed nothing else
C7_BackoffProbeSkips ==
  [][\A p \in PassIds, e \in EpIds :
       (/\ Enters(p, e)
        /\ Endpoints[e].IsRateLimited
        /\ now < Endpoints[e].RateLimitedUntil)
       => /\ pass'[p].probe[e] = "skipped"
          /\ mutex' = mutex
          /\ Endpoints' = [Endpoints EXCEPT ![e].IsReachable = FALSE]]_vars

\* a probe has returned from the backoff branch and its record is still in
\* backoff, with the block number and latency of the earlier successful probe
C7_Witness ==
  \E p \in PassIds, e \in EpIds :
    /\ pass[p].pc = "probe"
    /\ pass[p].probe[e] = "skipped"
    /\ Endpoints[e].IsRateLimited
    /\ now < Endpoints[e].RateLimitedUntil
    /\ ~Endpoints[e].IsReachable
    /\ Endpoints[e].BlockNumber = 2

\* in this step the handler of request r gets a 429 from the upstream and
\* returns
Gets429(r) ==
  /\ req[r].pc # "idle"
  /\ req'[r].pc = "idle"
  /\ req'[r].upstream = 429

\* C3 (as stated): when a forwarded request receives a 429, the record that
\* is flagged is the one the request was forwarded to, and no other
C3_FlagsForwardedRecord ==
  [][\A r \in ReqIds :
       Gets429(r) =>
         /\ Endpoints'[req[r].target].IsRateLimited
         /\ Endpoints'[req[r].target].RateLimitedUntil = now + RateLimitBackoff
         /\ \A e \in EpIds \ {req[r].target} : Endpoints'[e] = Endpoints[e]]_vars

\* C5 (as stated): a record that a probe or the proxy's 429 update has just
\* written is not both rate limited and reachable
C5_RateLimitedNotReachable ==
  [][\A e \in EpIds :
       Endpoints'[e] # Endpoints[e] =>
         (Endpoints'[e].IsRateLimited => ~Endpoints'[e].IsReachable)]_vars

\* C9: gw.CurrentBest always refers to one of the records of gw.Endpoints,
\* and to the first of them as long as no pass has called setBestEndpoint
C9_BestIsARecord ==
  /\ CurrentBest \in 1..Len(Endpoints)
  /\ ~published => CurrentBest = 1

\* a client request has been forwarded to the first record, which no probe
\* has found reachable, no pass having published anything yet
C9_Witness ==
  /\ ~published
  /\ Len(Endpoints) > 1
  /\ \E r \in ReqIds : req[r].pc = "forwarded" /\ req[r].target = 1
  /\ ~Endpoints[1].IsReachable

\* C10: a request is sent upstream exactly once; a 429 of the upstream is
\* answered with 429 and a transport failure with 502
C10_OneDispatch ==
  \A r \in ReqIds :
    /\ req[r].pc # "idle" => req[r].sent = 1
    /\ req[r].status # 0 =>
         /\ req[r].sent = 1
         /\ req[r].upstream = 429 => req[r].status = 429
         /\ req[r].upstream = 0 => req[r].status = 502

\* a request whose upstream answered 429 has been answered 429 after one
\* dispatch, while another record was a candidate
C10_Witness ==
  \E r \in ReqIds :
    /\ req[r].pc = "idle"
    /\ req[r].upstream = 429
    /\ req[r].status = 429
    /\ req[r].sent = 1
    /\ \E e \in EpIds : Eligible(Endpoints[e]) /\ e # CurrentBest

Throttled(a) ==
  /\ CurrentBest = a
  /\ Endpoints[a].IsRateLimited
  /\ Endpoints[a].RateLimitedUntil = now + RateLimitBackoff
  /\ \E r \in ReqIds : req[r].pc = "idle" /\ req[r].upstream = 429
  /\ \E s \in SpawnIds : Fresh(s)

\* record b is a candidate whose block is within BlockTolerance of a's
Healthy(b, a) ==
  /\ Eligible(Endpoints[b])
  /\ Endpoints[b].BlockNumber >= Endpoints[a].BlockNumber - BlockTolerance

BackoffOver(a) ==
  Endpoints[a].IsRateLimited => now >= Endpoints[a].RateLimitedUntil

Publishes(p) == pass[p].pc = "set" /\ pass'[p].pc = "done"

\* C1 (as stated): when a pass that found candidates returns, the current
\* best is a record of the tip-fresh set with the minimum latency of that
\* set, in the table as its probes left it or in the table as it is then
C1_BestIsFreshAndFastest ==
  [][\A p \in PassIds :
       Publishes(p) =>
         \/ CurrentBest' \in pass[p].allowed
         \/ CurrentBest' \in Allowed(Endpoints)]_vars

\* C1 (amended): the same for a pass during whose loops no probe of another
\* pass and no 429 update of the proxy has written a record, and no other
\* pass has changed the current best
C1_UndisturbedBestIsFreshAndFastest ==
  [][\A p \in PassIds :
       (Publishes(p) /\ ~pass[p].dirty)
       => CurrentBest' \in Allowed(Endpoints)]_vars

\* every pass has returned, the second record has been published and is the
\* only one within tolerance, and the first, a candidate two blocks behind,
\* has the lower latency
C1_Witness ==
  /\ \A p \in PassIds : Returned(p)
  /\ mainpc = "serving"
  /\ published
  /\ CurrentBest = 2
  /\ Eligible(Endpoints[1]) /\ Eligible(Endpoints[2])
  /\ Endpoints[2].BlockNumber = 2 /\ Endpoints[1].BlockNumber = 0
  /\ Endpoints[1].Latency < Endpoints[2].Latency

-----------------------------------------------------------------------------
(* CheckEndpointStatus: the response of the upstream in detail               *)

\* hexadecimal digits of a run of n zeros
RECURSIVE Zeros(_)
Zeros(n) == IF n = 0 THEN <<>> ELSE <<0>> \o Zeros(n - 1)

\* The "result" strings of the model.  A string is an optional sign, an
\* optional "0x" and a run of characters, each given by its value as a digit
\* (36 for a character that is no digit in any base):
\*   "0x2", "-0x1", "0x10000000000000002" (2^64 + 2), "0x" (no digits), "0xz"
Results ==
  { [sign |-> "", prefix |-> "0x", chars |-> <<2>>],
    [sign |-> "-", prefix |-> "0x", chars |-> <<1>>],
    [sign |-> "", prefix |-> "0x", chars |-> <<1>> \o Zeros(15) \o <<2>>],
    [sign |-> "", prefix |-> "0x", chars |-> <<>>],
    [sign |-> "", prefix |-> "0x", chars |-> <<36>>] }

\* the value of a run of digits in the given base
RECURSIVE Val(_, _)
Val(digits, base) ==
  IF digits = <<>> THEN 0
  ELSE Val(SubSeq(digits, 1, Len(digits) - 1), base) * base
       + digits[Len(digits)]

\* the hexadecimal digits of n, none for 0
RECURSIVE ToHex(_)
ToHex(n) == IF n = 0 THEN <<>> ELSE ToHex(n \div 16) \o <<n % 16>>

\* blockNumBig.SetString(rpcResp.Result, 0): base 16 after "0x", base 10
\* otherwise; at least one digit, and every character a digit of the base.
\* The number is kept as a sign and the hexadecimal digits of its magnitude.
SetString(result) ==
  LET base == IF result.prefix = "0x" THEN 16 ELSE 10
      ok == /\ result.chars # <<>>
            /\ \A i \in 1..Len(result.chars) : result.chars[i] < base
  IN [success |-> ok,
      neg |-> ok /\ result.sign = "-",
      abs |-> IF ~ok THEN <<>>
              ELSE IF base = 16 THEN result.chars
              ELSE ToHex(Val(result.chars, 10))]

\* the low 64 bits of a magnitude, as sixteen hexadecimal digits
Low64(abs) ==
  LET padded == Zeros(16) \o abs
  IN SubSeq(padded, Len(padded) - 15, Len(padded))

\* int64(w) of a 64-bit word w given by sixteen hexadecimal digits: two's
\* complement
AsInt64(w) ==
  IF w[1] < 8 THEN Val(w, 16)
  ELSE -(Val([i \in 1..16 |-> 15 - w[i]], 16) + 1)

\* blockNumBig.Int64(): int64(low64(x.abs)), negated if x.neg
Int64(x) == IF x.neg THEN -AsInt64(Low64(x.abs)) ELSE AsInt64(Low64(x.abs))

\* what the upstream does with a probe request: err, client.Do fails; else
\* a response with a status arrives after the round-trip time latency; a 200
\* has a body that cannot be read ("unreadable"), is no JSON ("notjson"), is
\* a JSON-RPC error ("rpcerror") or carries a result string ("result")
NoBody == [sign |-> "", prefix |-> "", chars |-> <<>>]
Responses ==
  {[err |-> TRUE, latency |-> 0, status |-> 0, body |-> "", result |-> NoBody]}
  \cup [err : {FALSE}, latency : Latencies, status : {429, 500},
        body : {""}, result : {NoBody}]
  \cup [err : {FALSE}, latency : Latencies, status : {200},
        body : {"unreadable", "notjson", "rpcerror"}, result : {NoBody}]
  \cup [err : {FALSE}, latency : Latencies, status : {200},
        body : {"result"}, result : Results]

\* the history value of a probe that sent no request
NoResponse ==
  [err |-> FALSE, latency |-> 0, status |-> 0, body |-> "", result |-> NoBody]

\* variant: a 429 is taken for any other status that is not 200
OutcomeNo429(resp) ==
  IF resp.err THEN [kind |-> "http_do", latency |-> 0, block |-> 0]
  ELSE IF resp.status = 200 /\ resp.body = "result"
          /\ SetString(resp.result).success
  THEN [kind |-> "ok", latency |-> resp.latency,
        block |-> Int64(SetString(resp.result))]
  ELSE [kind |-> "failed", latency |-> resp.latency, block |-> 0]

\* the branch of CheckEndpointStatus a response takes, in the order of the
\* code's checks
Outcome(resp) ==
  IF resp.err THEN [kind |-> "http_do", latency |-> 0, block |-> 0]
  ELSE IF resp.status = 429
  THEN [kind |-> "429", latency |-> resp.latency, block |-> 0]
  ELSE IF resp.status # 200
  THEN [kind |-> "failed", latency |-> resp.latency, block |-> 0]
  ELSE IF resp.body # "result"
  THEN [kind |-> "failed", latency |-> resp.latency, block |-> 0]
  ELSE IF ~SetString(resp.result).success
  THEN [kind |-> "failed", latency |-> resp.latency, block |-> 0]
  ELSE [kind |-> "ok", latency |-> resp.latency,
        block |-> Int64(SetString(resp.result))]

\* the probe of record e by pass p, as one step: the whole
\* CheckEndpointStatus call, the upstream answering resp if it is asked
Probe(p, e) ==
  /\ pass[p].pc = "probe"
  /\ pass[p].probe[e] = "spawned"
  /\ WLockFree(e)
  /\ \E resp \in Responses :
       LET skip == InBackoff(Endpoints[e], now)
           E == Written(Endpoints, e,
                        CheckEndpointStatus(Endpoints[e], now, Outcome(resp)))
       IN /\ skip => resp = NoResponse
          /\ Endpoints' = E
          /\ pass' = [ProbeReturned(p, e, IF skip THEN "skipped" ELSE "done", E)
                        EXCEPT ![p].got[e] = IF skip THEN NoResponse ELSE resp]
  /\ UNCHANGED <<cfg, CurrentBest, mutex, now, req, mainpc, checker,
                 published>>

\* StartChecker or its goroutine begins a pass
BeginProbes ==
  /\ \/ mainpc = "init" /\ checker = "none" /\ pass[0].pc = "idle"
     \/ AtSelect
  /\ pass' = [pass EXCEPT ![0] = [StartedPass EXCEPT
                                    !.got = [e \in EpIds |-> NoResponse]]]
  /\ UNCHANGED <<cfg, Endpoints, CurrentBest, mutex, now, req, mainpc, checker,
                 published>>

NextProbes ==
  \/ BeginProbes
  \/ Serve
  \/ \E e \in EpIds : Probe(0, e)
  \/ SelectAfterProbes(0)
  \/ ClockTick

SpecProbes == Init /\ [][NextProbes]_vars

-----------------------------------------------------------------------------
(* CheckEndpointStatus: frame *)

\* in this step a CheckEndpointStatus call of pass p on record e enters or
\* returns
ProbeStep(p, e) ==
  /\ pass[p].pc = "probe" /\ pass'[p].pc = "probe"
  /\ pass[p].probe[e] # pass'[p].probe[e]

\* C11: a step of a CheckEndpointStatus call on a record changes no other
\* record of the table and leaves gw.CurrentBest as it is
C11_ProbeWritesOwnRecordOnly ==
  [][\A p \in PassIds : \A e \in EpIds :
       ProbeStep(p, e)
       => /\ CurrentBest' = CurrentBest
          /\ \A f \in EpIds \ {e} : Endpoints'[f] = Endpoints[f]]_vars

\* the first probe of the first record has returned with a block number and
\* a latency while the second record is as NewGateway built it
C11_Witness ==
  /\ pass[0].pc = "probe"
  /\ pass[0].probe[1] = "done" /\ pass[0].probe[2] = "spawned"
  /\ Endpoints[1].IsReachable
  /\ Endpoints[1].BlockNumber = 2 /\ Endpoints[1].Latency = 1
  /\ Endpoints[2] = ParseAll(cfg)[2]

-----------------------------------------------------------------------------
(* The passes of StartChecker one after the other, with what the upstreams   *)
(* answer kept as history                                                     *)

\* a whole SelectBestEndpoint call of StartChecker or of its goroutine
RecordedPass ==
  \E outs \in [EpIds -> Outcomes] :
    /\ PassWith(outs)
    /\ pass' = [pass EXCEPT ![0].got = outs, ![0].at = now]

\* gw.SelectBestEndpoint() at the head of StartChecker
FirstRecorded ==
  /\ mainpc = "init"
  /\ checker = "none"
  /\ RecordedPass
  /\ checker' = "running"
  /\ mainpc' = "serving"
  /\ UNCHANGED <<cfg, mutex, now, req>>

\* case <-ticker.C: gw.SelectBestEndpoint()
TickRecorded ==
  /\ AtSelect
  /\ RecordedPass
  /\ UNCHANGED <<cfg, mutex, now, req, mainpc, checker>>

NextTwice == FirstRecorded \/ TickRecorded \/ ClockTick

SpecTwice == Init /\ [][NextTwice]_vars

\* in this step a pass runs right after another pass, the upstreams answer
\* it as they answered that one, and no backoff has run out since that one
\* (no rate_limited_until lies after its time and not after the current time)
SameAgain ==
  /\ pass[0].got # <<>>
  /\ pass'[0].got = pass[0].got
  /\ Endpoints' # Endpoints \/ CurrentBest' # CurrentBest \/ pass' # pass
  /\ now' = now
  /\ \A e \in EpIds :
       ~(/\ Endpoints[e].IsRateLimited
         /\ pass[0].at < Endpoints[e].RateLimitedUntil
         /\ Endpoints[e].RateLimitedUntil <= now)

\* C12: a pass that follows another one with the same probe outcomes and no
\* backoff expiry in between leaves the current best where that one left it
C12_SecondPassSameBest ==
  [][SameAgain => CurrentBest' = CurrentBest]_vars

-----------------------------------------------------------------------------
(* StartChecker: cancellation *)

\* C13: once cancel() has been called the checker goroutine begins no
\* gw.SelectBestEndpoint() call (a call in flight goes on)
C13_NoPassAfterCancel ==
  [][(ctxDone /\ Returned(0)) => Returned(0)']_vars

-----------------------------------------------------------------------------
(* Concurrent passes and the throttle flag *)

\* C14: when no pass is in flight and another record is a candidate, the
\* current best is not a rate-limited record whose backoff has not run out
C14_BestNotThrottled ==
  (\A p \in PassIds : Returned(p))
  => ~(/\ InBackoff(Endpoints[CurrentBest], now)
       /\ \E f \in EpIds \ {CurrentBest} : Eligible(Endpoints[f]))

-----------------------------------------------------------------------------
(* StartChecker: the first pass *)

\* C15: StartChecker returns, and main starts the listeners, only when the
\* first gw.SelectBestEndpoint() call has returned, and a client request is
\* forwarded only once the listeners are started
C15_FirstPassBeforeTraffic ==
  [][/\ (mainpc = "init" /\ mainpc' # "init") => pass[0].pc = "done"
     /\ \A r \in ReqIds :
          (req[r].pc = "idle" /\ req'[r].pc = "forwarded")
          => mainpc = "serving"]_vars

\* a request is on its way to the upstream, the first pass has returned and
\* has found the first record reachable, and no later pass has begun
C15_Witness ==
  /\ \E r \in ReqIds : req[r].pc = "forwarded"
  /\ pass[0].pc = "done"
  /\ Endpoints[1].IsReachable
  /\ CurrentBest = 1

-----------------------------------------------------------------------------
(* CheckEndpointStatus: what each response leaves in the record *)

\* the upstream answers 200 with a result that SetString accepts
Succeeds(resp) ==
  /\ ~resp.err /\ resp.status = 200 /\ resp.body = "result"
  /\ SetString(resp.result).success

\* the records of the candidate list the first loop builds from table E
CandidateSet(E) == {Candidates(E, 1)[i] : i \in 1..Len(Candidates(E, 1))}

\* C16: a probe of a rate-limited record that begins after the clock has
\* passed rate_limited_until sends its request; if the upstream answers 200
\* with a parsable result the flag is cleared, the record is reachable and
\* the first loop of the pass lists it as a candidate
C16_EligibleAgain ==
  [][\A e \in EpIds :
       (/\ ProbeStep(0, e)
        /\ Endpoints[e].IsRateLimited
        /\ now > Endpoints[e].RateLimitedUntil)
       => /\ pass'[0].probe[e] = "done"
          /\ Succeeds(pass'[0].got[e])
             => /\ ~Endpoints'[e].IsRateLimited
                /\ Endpoints'[e].IsReachable
                /\ e \in CandidateSet(Endpoints')]_vars

\* the first record was rate limited until time 1; its probe at time 2 got a
\* 200 with a parsable result and the record is a candidate again
C16_Witness ==
  /\ now = 2
  /\ pass[0].pc = "probe" /\ pass[0].probe[1] = "done"
  /\ Succeeds(pass[0].got[1])
  /\ Endpoints[1].RateLimitedUntil = 1
  /\ Eligible(Endpoints[1])

\* the upstream answers 429
Got429(resp) == ~resp.err /\ resp.status = 429

\* C17: a probe that gets a 429 leaves its record rate limited until the
\* time of the probe plus the backoff, not reachable, and with the block
\* number it had
C17_Probe429 ==
  [][\A e \in EpIds :
       (ProbeStep(0, e) /\ Got429(pass'[0].got[e]))
       => /\ Endpoints'[e].IsRateLimited
          /\ ~Endpoints'[e].IsReachable
          /\ Endpoints'[e].RateLimitedUntil = now + RateLimitBackoff
          /\ Endpoints'[e].BlockNumber = Endpoints[e].BlockNumber]_vars

\* the probe of the first record at time 1 got a 429; the record keeps the
\* block number of an earlier probe
C17_Witness ==
  /\ now = 1
  /\ pass[0].pc = "probe" /\ pass[0].probe[1] = "done"
  /\ Got429(pass[0].got[1])
  /\ Endpoints[1].IsRateLimited /\ ~Endpoints[1].IsReachable
  /\ Endpoints[1].RateLimitedUntil = 1 + RateLimitBackoff
  /\ Endpoints[1].BlockNumber = 2

\* the probe request fails, or its response is none the probe can use and
\* no 429
Fails(resp) ==
  \/ resp.err
  \/ resp.status \notin {200, 429}
  \/ resp.status = 200 /\ resp.body \in {"unreadable", "notjson", "rpcerror"}
  \/ resp.status = 200 /\ resp.body = "result"
     /\ ~SetString(resp.result).success

\* in this step pass p, every probe of which has returned, runs its loops
\* and returns
SelectStep(p) == ProbesDone(p) /\ pass'[p].pc = "done"

\* C18: a probe that fails without a 429 leaves its record not reachable,
\* does not set the rate-limit flag and keeps the block number; the pass
\* still runs its selection over the table, and publishes if a record is a
\* candidate
C18_FailureIsLocal ==
  [][/\ \A e \in EpIds :
          (ProbeStep(0, e) /\ pass'[0].probe[e] = "done"
           /\ Fails(pass'[0].got[e]))
          => /\ ~Endpoints'[e].IsReachable
             /\ Endpoints'[e].IsRateLimited => Endpoints[e].IsRateLimited
             /\ Endpoints'[e].BlockNumber = Endpoints[e].BlockNumber
     /\ (/\ SelectStep(0)
         /\ \E e \in EpIds : pass[0].probe[e] = "done" /\ Fails(pass[0].got[e])
         /\ EligibleSet(Endpoints) # {})
        => CurrentBest' \in Allowed(Endpoints)]_vars

\* a pass in which the probe of the first record failed has returned and
\* the second record is the current best; the first record, not reachable
\* and not rate limited, keeps the block number of an earlier probe
C18_Witness ==
  /\ pass[0].pc = "done"
  /\ published /\ CurrentBest = 2
  /\ Eligible(Endpoints[2])
  /\ ~Endpoints[1].IsReachable /\ ~Endpoints[1].IsRateLimited
  /\ Endpoints[1].BlockNumber = 2

\* C19: the block number and the latency of a record change only in a probe
\* of that record that leaves it reachable
C19_BlockAndLatencyWithReachable ==
  [][\A e \in EpIds :
       (\/ Endpoints'[e].BlockNumber # Endpoints[e].BlockNumber
        \/ Endpoints'[e].Latency # Endpoints[e].Latency)
       => (ProbeStep(0, e) /\ Endpoints'[e].IsReachable)]_vars

\* the result string denotes an integer from 0 to 2^63 - 1: digits only, no
\* minus sign, and at most sixteen hexadecimal digits after the leading
\* zeros, the first below 8 if there are sixteen
RECURSIVE Significant(_)
Significant(digits) ==
  IF digits # <<>> /\ digits[1] = 0 THEN Significant(Tail(digits)) ELSE digits

NonNegativeInt64(result) ==
  /\ result.chars # <<>>
  /\ \A i \in 1..Len(result.chars) :
       result.chars[i] < (IF result.prefix = "0x" THEN 16 ELSE 10)
  /\ result.sign # "-" \/ Significant(result.chars) = <<>>
  /\ result.prefix = "0x"
     => LET d == Significant(result.chars)
        IN Len(d) < 16 \/ (Len(d) = 16 /\ d[1] < 8)

\* C20: a probe that gets a 200 whose result does not denote an integer from
\* 0 to 2^63 - 1 leaves its record not reachable
C20_BadResultNotReachable ==
  [][\A e \in EpIds :
       (/\ ProbeStep(0, e)
        /\ ~pass'[0].got[e].err
        /\ pass'[0].got[e].status = 200
        /\ pass'[0].got[e].body = "result"
        /\ ~NonNegativeInt64(pass'[0].got[e].result))
       => ~Endpoints'[e].IsReachable]_vars

\* C20, the consequence: the block number of a reachable record is not
\* negative
C20_ReachableBlockNotNegative ==
  \A e \in EpIds : Endpoints[e].IsReachable => Endpoints[e].BlockNumber >= 0

-----------------------------------------------------------------------------
(* SelectBestEndpoint: the loops after the probes *)

\* in this step pass p ends its loop over candidates
FilterEnds(p) == pass[p].pc = "filter" /\ pass'[p].pc # "filter"

\* C21: when the loop over candidates ends it has kept at least one of them:
\* finalCandidates is not empty before the fallback test
C21_TipFreshNotEmpty ==
  [][\A p \in PassIds :
       FilterEnds(p)
       => \/ pass[p].finalCandidates # <<>>
          \/ WithinTolerance(
               Endpoints[pass[p].candidates[Len(pass[p].candidates)]],
               pass[p].blockThreshold)]_vars

\* the same URL configured twice: NewGateway makes one record for each
\* entry of the configuration
SameURL == <<"u1", "u1">>

InitSameURL == NewGateway(SameURL)

\* the passes of the checker over two records of the same URL
SpecSameURL == InitSameURL /\ [][NextChecker]_vars

\* C22: a pass that found candidates leaves the record it chose in
\* gw.CurrentBest
C22_ChosenRecordPublished ==
  [][\A p \in PassIds : Publishes(p) => CurrentBest' = pass[p].best]_vars

-----------------------------------------------------------------------------
(* Read locks as state.  The comparator of sort.Slice takes the read locks   *)
(* of two records one after the other; over the pool of thirteen endpoints   *)
(* the first three comparator calls are those of median_func.  Three passes  *)
(* run at once: the checker's and those of two 429 responses.                *)

\* 429 responses whose passes run at once in this specification
MaxSpawnLocks == 2
LockPassIds == 0..MaxSpawnLocks

\* a sync.RWMutex nobody holds or waits for: writer is the task past Lock(),
\* pending the tasks inside Lock(), readers the passes past RLock()
FreeMutex == [writer |-> NoOne, pending |-> {}, readers |-> {}]

\* RLock() returns: no writer holds the mutex and none is inside Lock()
RLockReturns(m) == m.writer = NoOne /\ m.pending = {}

\* Lock() returns to task t: no writer and no reader holds the mutex
LockReturns(m, t) == t \in m.pending /\ m.writer = NoOne /\ m.readers = {}

\* what the upstreams of the pool answer a probe: the block number they
\* answered before, after some round-trip time
PoolOutcomes == [kind : {"ok"}, latency : Latencies, block : {2}]

\* the records whose locks the comparator calls of median_func take in a
\* slice of all thirteen records: positions l/4, 2(l/4), 3(l/4) from 0
PivotRecords == {(k * (Len(Pool13) \div 4)) + 1 : k \in 1..3}

\* the locals of a pass in this specification.  k counts the comparator calls
\* of median_func; a, b, c are its arguments (positions from 0); swaps is
\* choosePivot_func's count; held is the record whose read lock the running
\* comparator call holds, 0 if none
LockPass == [pc |-> "idle", probe |-> <<>>, finalCandidates |-> <<>>,
             k |-> 0, a |-> 0, b |-> 0, c |-> 0, swaps |-> 0, held |-> 0]

\* the locals when sort.Slice calls choosePivot_func on the slice fin
AtPivot(fin) ==
  LET q == Len(fin) \div 4
  IN [LockPass EXCEPT !.pc = "pivot", !.finalCandidates = fin, !.k = 1,
                      !.a = q, !.b = 2 * q, !.c = 3 * q]

\* the probes of two passes have returned with the same block number and some
\* round-trip times for the records median_func compares, and both passes are
\* about to sort all thirteen records; a third pass has started its probes,
\* and those of the records median_func compares have not called Lock() yet
InitLocks ==
  /\ cfg = Pool13
  /\ \E lat \in [PivotRecords -> Latencies] :
       Endpoints = [e \in 1..Len(Pool13) |->
                      [URL |-> Pool13[e], BlockNumber |-> 2,
                       Latency |-> IF e \in PivotRecords THEN lat[e] ELSE 0,
                       IsRateLimited |-> FALSE, RateLimitedUntil |-> 0,
                       IsReachable |-> TRUE]]
  /\ CurrentBest = InitialBest(Endpoints)
  /\ mutex = [e \in 1..Len(Pool13) |-> FreeMutex]
  /\ now = 0
  /\ pass = [p \in LockPassIds |->
              IF p < MaxSpawnLocks
              THEN AtPivot([e \in 1..Len(Pool13) |-> e])
              ELSE [LockPass EXCEPT
                      !.pc = "probe",
                      !.probe = [e \in 1..Len(Pool13) |->
                                   IF e \in PivotRecords THEN "spawned"
                                   ELSE "done"]]]
  /\ req = [r \in ReqIds |-> IdleReq]
  /\ mainpc = "serving"
  /\ checker = "running"
  /\ published = FALSE

\* ep.Mutex.Lock() is called: the probe is a writer waiting for the mutex
LockCall(p, e) ==
  /\ pass[p].pc = "probe"
  /\ pass[p].probe[e] = "spawned"
  /\ mutex' = [mutex EXCEPT ![e].pending = @ \cup {ProbeTask(p)}]
  /\ pass' = [pass EXCEPT ![p].probe[e] = "waiting"]
  /\ UNCHANGED <<cfg, Endpoints, CurrentBest, now, req, mainpc, checker,
                 published>>

\* ep.Mutex.Lock() returns; the entry checks run; the probe returns at once
\* (backoff) or sends its request with the lock held
LockReturn(p, e) ==
  /\ pass[p].pc = "probe"
  /\ pass[p].probe[e] = "waiting"
  /\ LockReturns(mutex[e], ProbeTask(p))
  /\ IF InBackoff(Endpoints[e], now)
       THEN /\ Endpoints' = Written(Endpoints, e,
                              [Endpoints[e] EXCEPT !.IsReachable = FALSE])
            /\ mutex' = [mutex EXCEPT ![e].pending = @ \ {ProbeTask(p)}]
            /\ pass' = [pass EXCEPT ![p].probe[e] = "skipped"]
       ELSE /\ Endpoints' = Written(Endpoints, e,
                                    AfterEntry(Endpoints[e], now))
            /\ mutex' = [mutex EXCEPT ![e].pending = @ \ {ProbeTask(p)},
                                      ![e].writer = ProbeTask(p)]
            /\ pass' = [pass EXCEPT ![p].probe[e] = "io"]
  /\ UNCHANGED <<cfg, CurrentBest, now, req, mainpc, checker, published>>

\* the response arrives within the request timeout; the record is updated and
\* the deferred Unlock runs
LockedFinish(p, e) ==
  /\ pass[p].pc = "probe"
  /\ pass[p].probe[e] = "io"
  /\ \E out \in PoolOutcomes :
       Endpoints' = Written(Endpoints, e, ProbeResult(Endpoints[e], now, out))
  /\ mutex' = [mutex EXCEPT ![e].writer = NoOne]
  /\ pass' = [pass EXCEPT ![p].probe[e] = "done"]
  /\ UNCHANGED <<cfg, CurrentBest, now, req, mainpc, checker, published>>

\* sort.Slice and the rest of SelectBestEndpoint, setBestEndpoint included,
\* for a slice of at most 12 elements
PublishSorted(p, sorted) ==
  LET best == sorted[1]
      set == MustSet(Endpoints[CurrentBest].URL, Endpoints[best].URL)
  IN /\ CurrentBest' = IF set THEN best ELSE CurrentBest
     /\ published' = (published \/ set)
     /\ pass' = [pass EXCEPT ![p] = [LockPass EXCEPT !.pc = "done"]]

\* wg.Wait() has returned; the two loops that build finalCandidates, each
\* iteration under the read lock of its record; a slice of 13 goes on to
\* choosePivot_func, a shorter one is sorted by insertion and published
BuildCandidates(p) ==
  /\ pass[p].pc = "probe"
  /\ \A e \in EpIds : pass[p].probe[e] \in {"done", "skipped"}
  /\ \A e \in EpIds : RLockReturns(mutex[e])
  /\ LET cands == Candidates(Endpoints, 1)
     IN IF cands = <<>>
          THEN /\ pass' = [pass EXCEPT ![p] = [LockPass EXCEPT !.pc = "done"]]
               /\ UNCHANGED <<CurrentBest, published>>
          ELSE LET fin == Filter(Endpoints, cands, 1,
                                 HighestBlock(Endpoints, 1, -1)
                                   - BlockTolerance)
                   fin2 == IF fin = <<>> THEN cands ELSE fin
               IN IF Len(fin2) > 12
                    THEN /\ pass' = [pass EXCEPT ![p] = AtPivot(fin2)]
                         /\ UNCHANGED <<CurrentBest, published>>
                    ELSE PublishSorted(p, SortSlice(fin2, Endpoints))
  /\ UNCHANGED <<cfg, Endpoints, mutex, now, req, mainpc, checker>>

\* the arguments (i, j) of the k-th call less(data[i], data[j]) made by
\* median_func through order2_func: order2(a, b) asks less(b, a)
LessArgs(l) == IF l.k = 2 THEN <<l.c, l.b>> ELSE <<l.b, l.a>>

\* finalCandidates[i].Mutex.RLock() of a comparator call
LockFirst(p) ==
  /\ pass[p].pc = "pivot"
  /\ pass[p].held = 0
  /\ LET x == pass[p].finalCandidates[LessArgs(pass[p])[1] + 1]
     IN /\ RLockReturns(mutex[x])
        /\ mutex' = [mutex EXCEPT ![x].readers = @ \cup {p}]
        /\ pass' = [pass EXCEPT ![p].held = x]
  /\ UNCHANGED <<cfg, Endpoints, CurrentBest, now, req, mainpc, checker,
                 published>>

\* finalCandidates[j].Mutex.RLock(), the comparison and the deferred RUnlocks
\* of a comparator call; order2_func exchanges its arguments if the call
\* returned true; after the third call median_func returns b
LockSecond(p) ==
  /\ pass[p].pc = "pivot"
  /\ pass[p].held # 0
  /\ LET l == pass[p]
         x == l.held
         y == l.finalCandidates[LessArgs(l)[2] + 1]
         lt == Less(Endpoints[x], Endpoints[y])
         sw == IF lt THEN l.swaps + 1 ELSE l.swaps
     IN /\ RLockReturns(mutex[y])
        /\ mutex' = [mutex EXCEPT ![x].readers = @ \ {p}]
        /\ pass' = [pass EXCEPT ![p] =
             IF l.k = 2
             THEN [l EXCEPT !.k = 3, !.held = 0, !.swaps = sw,
                            !.b = IF lt THEN l.c ELSE l.b,
                            !.c = IF lt THEN l.b ELSE l.c]
             ELSE [l EXCEPT !.k = IF l.k = 1 THEN 2 ELSE 0, !.held = 0,
                            !.swaps = sw,
                            !.a = IF lt THEN l.b ELSE l.a,
                            !.b = IF lt THEN l.a ELSE l.b,
                            !.pc = IF l.k = 1 THEN "pivot" ELSE "rest"]]
  /\ UNCHANGED <<cfg, Endpoints, CurrentBest, now, req, mainpc, checker,
                 published>>

\* pdqsort_func of 13 elements after choosePivot_func returned (pivot, swaps)
SortFromPivot(s, pivot, swaps, E) ==
  IF swaps = 0 /\ PartialInsertionSort(s, 0, Len(s), E) THEN s
  ELSE LET pt == Partition(s, 0, Len(s), pivot, E)
           left == InsertionSort(pt.s, 0, pt.mid, 1, E)
       IN InsertionSort(left, pt.mid + 1, Len(s), pt.mid + 2, E)

\* the comparator calls after choosePivot_func, each under the read locks of
\* its two records, and the rest of SelectBestEndpoint
SortRest(p) ==
  /\ pass[p].pc = "rest"
  /\ \A e \in EpIds : RLockReturns(mutex[e])
  /\ PublishSorted(p, SortFromPivot(pass[p].finalCandidates, pass[p].b,
                                    pass[p].swaps, Endpoints))
  /\ UNCHANGED <<cfg, Endpoints, mutex, now, req, mainpc, checker>>

\* the steps of pass p and of its probes
LockStep(p) ==
  \/ \E e \in EpIds : LockCall(p, e)
  \/ \E e \in EpIds : LockReturn(p, e)
  \/ \E e \in EpIds : LockedFinish(p, e)
  \/ BuildCandidates(p)
  \/ LockFirst(p)
  \/ LockSecond(p)
  \/ SortRest(p)

NextLocks == \E p \in LockPassIds : LockStep(p)

SpecLocks == InitLocks /\ [][NextLocks]_vars

\* the record whose read lock the comparator call of pass p takes next
Wanted(p) ==
  pass[p].finalCandidates[LessArgs(pass[p])[IF pass[p].held = 0 THEN 1 ELSE 2]
                          + 1]

\* pass p or one of its probes can take a step: the guards of LockStep(p)
CanStep(p) ==
  \/ /\ pass[p].pc = "probe"
     /\ \/ \E e \in EpIds : pass[p].probe[e] \in {"spawned", "io"}
        \/ \E e \in EpIds : /\ pass[p].probe[e] = "waiting"
                            /\ LockReturns(mutex[e], ProbeTask(p))
        \/ /\ \A e \in EpIds : pass[p].probe[e] \in {"done", "skipped"}
           /\ \A e \in EpIds : RLockReturns(mutex[e])
  \/ pass[p].pc = "pivot" /\ RLockReturns(mutex[Wanted(p)])
  \/ pass[p].pc = "rest" /\ \A e \in EpIds : RLockReturns(mutex[e])

\* C23: no interleaving of concurrent passes and probes leaves a task blocked
\* forever on a record lock.  Only the steps of the passes and of their
\* probes change a lock, so in a state where a pass has not returned and
\* neither a pass nor a probe can take a step, the pass never returns
C23_NoTaskBlockedForever ==
  (\E p \in LockPassIds : pass[p].pc # "done")
  => \E p \in LockPassIds : CanStep(p)

\* the passes whose probe of record e is between Lock() and the deferred
\* Unlock() with its request sent
Writers(e) ==
  {p \in PassIds : pass[p].pc = "probe" /\ pass[p].probe[e] = "io"}

\* the SelectBestEndpoint call of pass p takes a step of its own
Moved(p) ==
  <<pass[p].pc, pass[p].idx, pass[p].si, pass[p].sj>>'
    # <<pass[p].pc, pass[p].idx, pass[p].si, pass[p].sj>>

\* the records the next step of pass p reads under their read locks
Reads(p) ==
  CASE pass[p].pc = "probe" -> {1}
    [] pass[p].pc = "scan" -> {pass[p].idx}
    [] pass[p].pc = "filter" -> {pass[p].candidates[pass[p].idx]}
    [] pass[p].pc = "sort" -> {pass[p].finalCandidates[pass[p].sj],
                               pass[p].finalCandidates[pass[p].sj - 1]}
    [] pass[p].pc = "best" -> {pass[p].finalCandidates[1]}
    [] OTHER -> {}

\* C24: for each record at most one task at a time is inside a mutating
\* section, two probes of one record never overlap, the proxy's flag update
\* is not made while a probe holds the record, and no read of a record by a
\* pass is made while a probe holds it
C24_RecordSectionsExclusive ==
  [][/\ \A e \in EpIds : Cardinality(Writers(e)') <= 1
     /\ \A r \in ReqIds :
          req[r].pc = "lock" /\ req'[r].pc # "lock"
          => Writers(req[r].flagged) = {}
     /\ \A p \in PassIds :
          Moved(p) => \A e \in Reads(p) : Writers(e) = {}]_vars

\* two passes run at once and the probe of one waits for the record the
\* probe of the other holds
C24_Witness ==
  \E e \in EpIds : \E p, q \in PassIds :
    /\ p # q
    /\ pass[p].pc = "probe" /\ pass[p].probe[e] = "io"
    /\ pass[q].pc = "probe" /\ pass[q].probe[e] = "spawned"

\* pass p is past wg.Wait() and has not returned
Selecting(p) == pass[p].pc \in {"scan", "filter", "sort", "best", "set"}

\* C25: a pass leaves wg.Wait() only when every probe it started has
\* returned, and while it builds its candidates, sorts them and publishes,
\* none of its own probes is running
C25_SelectionAfterOwnProbes ==
  [][\A p \in PassIds :
       /\ pass[p].pc = "probe" /\ pass'[p].pc # "probe"
          => \A e \in EpIds : pass[p].probe[e] \in {"done", "skipped"}
       /\ Selecting(p)
          => \A e \in EpIds : pass[p].probe[e] \in {"done", "skipped"}]_vars

\* a pass has built a candidate set while a probe of another pass is running
C25_Witness ==
  \E p, q \in PassIds :
    /\ pass[p].pc = "filter" /\ pass[p].candidates # <<>>
    /\ pass[q].pc = "probe" /\ \E e \in EpIds : pass[q].probe[e] = "io"

-----------------------------------------------------------------------------
(* Client traffic and the passes step by step, over time, with upstreams     *)
(* that answer 429 to client requests only: every rate-limit flag is the     *)
(* proxy's                                                                   *)

\* what an upstream answers a probe when it is healthy and does not rate
\* limit probes
Unthrottled == [kind : {"ok"}, latency : Latencies, block : {2}]

NextFlagged ==
  \/ FirstPass
  \/ Serve
  \/ TickPass
  \/ ClockTick
  \/ \E p \in PassIds, e \in EpIds : CheckEnter(p, e)
  \/ \E p \in PassIds, e \in EpIds : CheckFinishWith(p, e, Unthrottled)
  \/ \E p \in PassIds : ScanEndpoint(p)
  \/ \E p \in PassIds : FilterCandidate(p)
  \/ \E p \in PassIds : CompareAndSwap(p)
  \/ \E p \in PassIds : ReadBest(p)
  \/ \E p \in PassIds : PublishBest(p)
  \/ \E r \in ReqIds : Forward(r)
  \/ \E r \in ReqIds : Respond429(r)
  \/ \E r \in ReqIds : Flag(r)

SpecFlagged == Init /\ [][NextFlagged]_vars

\* record e is in the slice s
InSlice(e, s) == \E i \in 1..Len(s) : s[i] = e

\* the probe of a flagged record that starts strictly before its
\* RateLimitedUntil returns without sending a request
SkipsInBackoff ==
  \A p \in PassIds : \A e \in EpIds :
    Enters(p, e) /\ Endpoints[e].IsRateLimited
                 /\ now < Endpoints[e].RateLimitedUntil
    => pass'[p].probe[e] = "skipped"

\* C26 as stated: once the proxy has flagged a record, a pass whose probe of
\* it starts strictly before RateLimitedUntil sends it nothing and does not
\* have it among its candidates
C26_FlaggedSkippedAndExcluded ==
  [][/\ SkipsInBackoff
     /\ \A p \in PassIds : \A e \in EpIds :
          Selecting(p)' /\ pass'[p].probe[e] = "skipped"
          => ~InSlice(e, pass'[p].candidates)]_vars

\* the record the first loop of pass p reads next
Scanned(p) == IF pass[p].pc = "probe" THEN 1 ELSE pass[p].idx

\* C26, amended: once the proxy has flagged a record, a pass whose probe of
\* it starts strictly before RateLimitedUntil sends it nothing, and does not
\* take it as a candidate if it reads the record no later than the record's
\* RateLimitedUntil
C26_FlaggedSkippedAndExcludedInBackoff ==
  [][/\ SkipsInBackoff
     /\ \A p \in PassIds : \A e \in EpIds :
          /\ pass[p].pc \in {"probe", "scan"}
          /\ Moved(p)
          /\ Scanned(p) = e
          /\ pass[p].probe[e] = "skipped"
          /\ now <= Endpoints[e].RateLimitedUntil
          => ~InSlice(e, pass'[p].candidates)]_vars

\* a pass has skipped the record the proxy flagged and has built its
\* candidates without it
C26_Witness ==
  \E p \in PassIds : \E e \in EpIds :
    /\ pass[p].pc = "filter"
    /\ pass[p].probe[e] = "skipped"
    /\ Endpoints[e].IsRateLimited
    /\ ~InSlice(e, pass[p].candidates)

\* C27: gw.CurrentBest is written only by the setBestEndpoint call of
\* SelectBestEndpoint: a step that changes it is the publishing step of a
\* pass and leaves the record that pass chose; the steps of the proxy's
\* director, modifyResponse and errorHandler and the steps of a probe leave
\* it as it was
C27_PublisherWrittenBySelectorOnly ==
  [][CurrentBest' # CurrentBest
     => \E p \in PassIds : Publishes(p) /\ CurrentBest' = pass[p].best]_vars

\* a pass has replaced the initial current best and a request has been
\* answered after a 429 of the upstream
C27_Witness ==
  /\ published
  /\ CurrentBest # InitialBest(Endpoints)
  /\ \E r \in ReqIds : req[r].status = 429

\* the URLs of the records of table E, in the order of the table
URLs(E) == [e \in DOMAIN E |-> E[e].URL]

\* C28: no step adds, removes or reorders the records of gw.Endpoints or
\* changes the URL of one: the table keeps the records NewGateway built, in
\* configuration order, also when a pass reorders its slice of candidates
C28_TableFixed ==
  [][URLs(Endpoints') = URLs(Endpoints) /\ URLs(Endpoints') = cfg]_vars

\* a pass has sorted its candidates into another order than the table's, and
\* every record has been written by a probe
C28_Witness ==
  /\ \E p \in PassIds :
       /\ pass[p].pc = "best"
       /\ Len(pass[p].finalCandidates) = 2
       /\ pass[p].finalCandidates[1] > pass[p].finalCandidates[2]
  /\ \A e \in EpIds : Endpoints[e].IsReachable

\* modifyResponse of request r makes its update in this step
Flags(r) == req[r].pc = "lock" /\ req'[r].pc # "lock"

\* C29: the proxy's update on a 429 changes IsRateLimited and
\* RateLimitedUntil of one record only: the other fields of that record,
\* every other record and gw.CurrentBest stay as they were
C29_FlagUpdateFrame ==
  [][\A r \in ReqIds :
       Flags(r)
       => /\ \A e \in EpIds \ {req[r].flagged} : Endpoints'[e] = Endpoints[e]
          /\ Endpoints'[req[r].flagged] =
               [Endpoints[req[r].flagged] EXCEPT
                  !.IsRateLimited = Endpoints'[req[r].flagged].IsRateLimited,
                  !.RateLimitedUntil =
                     Endpoints'[req[r].flagged].RateLimitedUntil]
          /\ Endpoints'[req[r].flagged].IsRateLimited
          /\ CurrentBest' = CurrentBest]_vars

\* the proxy has flagged a record that a probe had found reachable, with a
\* block number and a round-trip time
C29_Witness ==
  \E e \in EpIds :
    /\ Endpoints[e].IsRateLimited
    /\ Endpoints[e].IsReachable
    /\ Endpoints[e].BlockNumber > 0
    /\ Endpoints[e].Latency > 0
    /\ \E r \in ReqIds : req[r].status = 429

\* C30: the passes StartChecker starts never overlap: the checker goroutine
\* is started only when the startup pass has returned, a tick starts a pass
\* only when the previous one has returned, and any other pass is started by
\* modifyResponse on a 429
C30_SchedulerPassesInSequence ==
  [][/\ checker = "none" /\ checker' = "running" => pass[0].pc = "done"
     /\ Fresh(0)' /\ ~Fresh(0) => Returned(0)
     /\ \A s \in SpawnIds :
          Returned(s) /\ ~Returned(s)' => \E r \in ReqIds : Flags(r)]_vars

\* a pass started by a tick runs while a pass started by modifyResponse does
C30_Witness ==
  /\ checker = "running"
  /\ ~Returned(0)
  /\ \E s \in SpawnIds : ~Returned(s)
====
